---- MODULE Spec2Model ----
(***************************************************************************)
(* Community Card Balance Checker (web app).                               *)
(*                                                                         *)
(* The model follows src/js/scanner.js (BarcodeScanner, ScannerManager,    *)
(* CommunityCardApp) and the configuration helpers of src/launch.sh.       *)
(* The page runs on one event loop: every action below is one macrotask    *)
(* (a DOM event, a timer callback, an engine callback, a settled fetch)    *)
(* together with the promise continuations it schedules, which the         *)
(* browser runs before the next macrotask.                                 *)
(*                                                                         *)
(* Strings are sequences of one-character strings where the code looks at  *)
(* their characters (barcodes, input values, formatted amounts) and        *)
(* sequences of message pieces where the code only concatenates them.      *)
(* Timers are untimed: a pending timer may fire at any later moment.       *)
(***************************************************************************)
EXTENDS Integers, Sequences, FiniteSets, TLC

VARIABLES
    scanner,    \* BarcodeScanner fields
    quagga,     \* the decoding engine as the scanner drives it
    manager,    \* ScannerManager fields
    app,        \* CommunityCardApp fields and the DOM nodes it writes
    network,    \* fetch requests issued and not yet settled
    timers,     \* pending setTimeout callbacks
    device,     \* what the browser offers (camera access)
    obs,        \* observation: how often the current scan callback was invoked
                \* (0, 1, or 2 for twice or more), whether stop() has returned
                \* since the last call of BarcodeScanner.initialize, and of
                \* the step that led here: the arguments of each call of the
                \* scan callback, with the modal's state at the call, whether
                \* initialize called its error callback, and what
                \* BarcodeScanner.toggleFlash returned ("on", "off") or that
                \* it threw
    page,       \* the ids document.getElementById finds in the page
    boot,       \* how far the DOMContentLoaded handler got
    call,       \* a call of a window.AppConfig helper: the helper and its input
    result      \* what that call returned or threw

vars == <<scanner, quagga, manager, app, network, timers, device, obs,
          page, boot, call, result>>

-----------------------------------------------------------------------------
(* Bounds of the model *)

\* callbacks outstanding at one moment: pending timers of every kind, Quagga.init
\* calls not yet answered and fetch requests not yet settled
MaxPending == 3

\* formatCurrency is applied to every amount from 0 to MaxAmount (and to a few
\* larger ones)
MaxAmount == 250

(* Program constants *)

BARCODE_LENGTH == 16

-----------------------------------------------------------------------------
(* Values *)

Null == <<"null">>      \* JavaScript null where a string may stand; no string of the model equals it
\* a callback that is null is "null"; a timer handle that is null is 0 (handles are positive)

Digits == {"0", "1", "2", "3", "4", "5", "6", "7", "8", "9"}
Whitespace == {" "}

Min(a, b) == IF a < b THEN a ELSE b

CodeA == <<"1","2","3","4","5","6","7","8","9","0","1","2","3","4","5","6">>
CodeB == <<"4","0","0","0","1","1","1","1","2","2","2","2","3","3","3","3">>

\* what a user may leave in the input field by one edit (typing, deleting, pasting)
RawValues ==
    { <<>>,
      <<"1","2","a","3","4">>,
      CodeB,
      CodeB \o <<"7","8","9","0">>,
      <<" ">> \o CodeB \o <<"-", "7">> }

\* what the engine may decode from a frame
DecodedValues ==
    { CodeA,
      <<"1","2","3","4","5">>,
      <<"a","b","c","d","e","f","g","h","i","j","1","2","3","4","5","6">> }

\* message of the error the engine passes to the Quagga.init callback
EngineErrors == { <<"Permission denied">> }

\* what the balance endpoint may answer; ok = FALSE is a transport or parse failure
Responses ==
    { [ok |-> TRUE,  status |-> "success",        message |-> Null, available |-> 500, budget |-> 2000,   failure |-> Null],
      [ok |-> TRUE,  status |-> "card_not_found", message |-> Null, available |-> 0, budget |-> 0, failure |-> Null],
      [ok |-> TRUE,  status |-> "error",          message |-> <<"Card is blocked">>, available |-> 0, budget |-> 0, failure |-> Null],
      [ok |-> TRUE,  status |-> "error",          message |-> Null, available |-> 0, budget |-> 0, failure |-> Null],
      [ok |-> TRUE,  status |-> "pending",        message |-> Null, available |-> 0, budget |-> 0, failure |-> Null],
      [ok |-> FALSE, status |-> "",               message |-> Null, available |-> 0, budget |-> 0, failure |-> <<"Failed to fetch">>] }

\* ids the app looks up at startup: the ones initializeDOMReferences insists
\* on, in the order it tests them, and the result display nodes
RequiredElements ==
    <<"barcodeInput", "scanButton", "lookupButton",
      "loadingSection", "errorSection", "successSection">>
DisplayElements == {"errorMessage", "availableBalance", "monthlyBudget"}
Elements == {RequiredElements[i] : i \in DOMAIN RequiredElements} \cup DisplayElements

\* the CONFIG object as far as getCurrentEnvironmentName reads it: whether it
\* has an ENV_NAMES table, the table as a set of <<key, label>> pairs, and
\* CURRENT_ENV ("undefined" when the property is absent).  SourceConfig is the
\* object of the source, which has SETTINGS only.
SourceConfig == [hasEnvNames |-> FALSE, envNames |-> {}, currentEnv |-> "undefined"]

EnvNames ==
    { <<"development", "Development">>, <<"production", "Production">>, <<"test", "">> }

\* the source's object, and the object completed with a table and a key
Configs ==
    {SourceConfig}
      \cup [hasEnvNames : {FALSE}, envNames : {{}}, currentEnv : {"production"}]
      \cup [hasEnvNames : {TRUE}, envNames : {{}, EnvNames},
            currentEnv : {"development", "production", "staging", "test", "undefined"}]

\* strings a caller may hand to isValidBarcode
BarcodeInputs ==
    { <<>>,
      CodeA,
      CodeB,
      SubSeq(CodeA, 1, 15),
      CodeA \o <<"7">>,
      CodeA \o CodeB,
      <<"a">> \o SubSeq(CodeA, 1, 15),
      SubSeq(CodeA, 1, 15) \o <<"a">>,
      SubSeq(CodeA, 1, 7) \o <<"-">> \o SubSeq(CodeA, 9, 16),
      SubSeq(CodeA, 1, 15) \o <<" ">>,
      CodeA \o <<"\n">>,
      <<" ">> \o CodeA,
      <<"x">> \o CodeA \o <<"x">>,
      SubSeq(CodeA, 1, 15) \o <<"U+0663">>,    \* one character: ARABIC-INDIC DIGIT THREE
      [i \in 1..16 |-> "a"] }

\* amounts in minor units a caller may hand to formatCurrency
Amounts == 0..MaxAmount \cup {1234, 9999, 10000, 100000, 123456789, 2147483647}

\* a call of a helper; the fields the helper does not read keep their defaults
NoCall == [fn |-> "none", barcode |-> <<>>, amount |-> 0, config |-> SourceConfig]
NoResult == [done |-> FALSE, threw |-> FALSE, bool |-> FALSE, text |-> <<>>]

Calls ==
    {[NoCall EXCEPT !.fn = "isValidBarcode", !.barcode = b] : b \in BarcodeInputs}
      \cup {[NoCall EXCEPT !.fn = "formatCurrency", !.amount = n] : n \in Amounts}
      \cup {[NoCall EXCEPT !.fn = "getCurrentEnvironmentName", !.config = c] : c \in Configs}

-----------------------------------------------------------------------------
(* Configuration helpers (window.AppConfig) *)

\* CONFIG.ENV_NAMES[CONFIG.CURRENT_ENV] || 'Unknown': reading a property of the
\* undefined ENV_NAMES throws a TypeError; an absent or empty label is falsy
getCurrentEnvironmentName(config) ==
    IF ~config.hasEnvNames THEN [threw |-> TRUE, text |-> <<"TypeError">>]
    ELSE LET labels == {e[2] : e \in {f \in config.envNames : f[1] = config.currentEnv}}
         IN  [threw |-> FALSE,
              text |-> IF labels = {} \/ labels = {""} THEN <<"Unknown">>
                       ELSE <<CHOOSE l \in labels : TRUE>>]

\* a pattern that would lack its anchors: /[0-9]{16}/
isValidBarcodeUnanchored(barcode) ==
    \E k \in 1..(Len(barcode) - BARCODE_LENGTH + 1) :
        \A i \in k..(k + BARCODE_LENGTH - 1) : barcode[i] \in Digits

\* BARCODE_PATTERN.test(barcode): /^[0-9]{16}$/
isValidBarcode(barcode) ==
    /\ Len(barcode) = BARCODE_LENGTH
    /\ \A i \in 1..Len(barcode) : barcode[i] \in Digits

DigitChar(d) ==
    CASE d = 0 -> "0" [] d = 1 -> "1" [] d = 2 -> "2" [] d = 3 -> "3" [] d = 4 -> "4"
      [] d = 5 -> "5" [] d = 6 -> "6" [] d = 7 -> "7" [] d = 8 -> "8" [] d = 9 -> "9"

RECURSIVE Decimal(_)
Decimal(n) == IF n < 10 THEN <<DigitChar(n)>> ELSE Decimal(n \div 10) \o <<DigitChar(n % 10)>>

\* a rendering that would print the cents without their leading zero
formatCurrencyUnpadded(amountInCents) ==
    <<"€">> \o Decimal(amountInCents \div 100) \o <<".">> \o Decimal(amountInCents % 100)

\* (amountInCents / 100).toFixed(2) behind the currency symbol, amountInCents >= 0
formatCurrency(amountInCents) ==
    <<"€">> \o Decimal(amountInCents \div 100) \o <<".">>
           \o <<DigitChar((amountInCents % 100) \div 10), DigitChar(amountInCents % 10)>>

-----------------------------------------------------------------------------
(* String operations of the language *)

\* value.replace(/\D/g, '')
IsDigit(c) == c \in Digits
stripNonDigits(value) == SelectSeq(value, IsDigit)

\* s.substring(0, n)
substring0(s, n) == SubSeq(s, 1, Min(Len(s), n))

RECURSIVE trimStart(_)
trimStart(s) == IF s # <<>> /\ Head(s) \in Whitespace THEN trimStart(Tail(s)) ELSE s

RECURSIVE trimEnd(_)
trimEnd(s) ==
    IF s # <<>> /\ s[Len(s)] \in Whitespace THEN trimEnd(SubSeq(s, 1, Len(s) - 1)) ELSE s

trim(s) == trimEnd(trimStart(s))

-----------------------------------------------------------------------------
(* The whole program state as one record, so that a handler is a function  *)
(* from the state before it to the state after it.                         *)

World ==
    [scanner |-> scanner, quagga |-> quagga, manager |-> manager, app |-> app,
     network |-> network, timers |-> timers, device |-> device,
     obs |-> [obs EXCEPT !.calls = {}, !.onScanError = FALSE, !.toggleFlash = "none"]]

-----------------------------------------------------------------------------
(* CommunityCardApp: sections, lookup state, results *)

hideAllSections(w) ==
    [w EXCEPT !.app.loadingHidden = TRUE,
              !.app.errorHidden = TRUE,
              !.app.successHidden = TRUE]

showLoading(w) == [hideAllSections(w) EXCEPT !.app.loadingHidden = FALSE]

hideLoading(w) == [w EXCEPT !.app.loadingHidden = TRUE]

setLookupState(w, isLookingUp) ==
    LET w1 == [w EXCEPT !.app.isLookingUp = isLookingUp,
                        !.app.lookupDisabled = isLookingUp,
                        !.app.scanDisabled = isLookingUp,
                        !.app.inputDisabled = isLookingUp,
                        !.app.buttonText = IF isLookingUp THEN "Checking..." ELSE "Check Balance",
                        !.app.buttonIcon = IF isLookingUp THEN "hourglass_empty" ELSE "search"]
    IN  IF isLookingUp THEN showLoading(w1) ELSE hideLoading(w1)

\* showError without its hideAllSections
showErrorOverOthers(w, message) ==
    [w EXCEPT !.app.errorMessage = message,
              !.app.errorHidden = FALSE,
              !.timers.error = @ + 1]

\* the setTimeout of 5000 ms is one more pending auto-dismiss timer
showError(w, message) ==
    [hideAllSections(w) EXCEPT !.app.errorMessage = message,
                               !.app.errorHidden = FALSE,
                               !.timers.error = @ + 1]

showSuccess(w, data) ==
    [hideAllSections(w) EXCEPT !.app.availableBalance = formatCurrency(data.available),
                               !.app.monthlyBudget = formatCurrency(data.budget),
                               !.app.successHidden = FALSE]

resetResults(w) == [hideAllSections(w) EXCEPT !.app.currentBarcode = Null]

resetUI(w) == [setLookupState(hideAllSections(w), FALSE) EXCEPT !.app.currentBarcode = Null]

\* getCardBalance up to its first await: the POST leaves with the barcode in its body
getCardBalance(w, barcode) == [w EXCEPT !.network = Append(@, barcode)]

\* performLookup without its two validation returns
performLookupUnvalidated(w) ==
    LET barcode == trim(w.app.inputValue)
    IN  IF w.app.isLookingUp
          THEN w
          ELSE getCardBalance([setLookupState(w, TRUE) EXCEPT !.app.currentBarcode = barcode],
                              barcode)

\* performLookup up to its first await
performLookup(w) ==
    LET barcode == trim(w.app.inputValue)
    IN  IF barcode = <<>>
          THEN showError(w, <<"Please enter a barcode">>)
        ELSE IF ~isValidBarcode(barcode)
          THEN showError(w, <<"Please enter a valid 16-digit barcode">>)
        ELSE IF w.app.isLookingUp
          THEN w
        ELSE getCardBalance([setLookupState(w, TRUE) EXCEPT !.app.currentBarcode = barcode],
                            barcode)

\* lookupSettled with the default case of the switch falling into case 'error'
lookupSettledDefaultAsError(w, response) ==
    LET shown ==
          IF ~response.ok
            THEN showError(w, <<"Network error: ">> \o response.failure)
          ELSE CASE response.status = "success" -> showSuccess(w, response)
                 [] response.status = "card_not_found" ->
                      showError(w, <<"Card not found. Please check the barcode and try again.">>)
                 [] OTHER ->
                      showError(w, IF response.message # Null /\ response.message # <<>>
                                     THEN response.message
                                     ELSE <<"An error occurred while checking the card">>)
    IN  setLookupState(shown, FALSE)

\* lookupSettled with setLookupState(false) at the end of the try instead of in a finally
lookupSettledNoFinally(w, response) ==
    IF ~response.ok
      THEN showError(w, <<"Network error: ">> \o response.failure)
      ELSE setLookupState(
             CASE response.status = "success" -> showSuccess(w, response)
               [] response.status = "card_not_found" ->
                    showError(w, <<"Card not found. Please check the barcode and try again.">>)
               [] response.status = "error" ->
                    showError(w, IF response.message # Null /\ response.message # <<>>
                                   THEN response.message
                                   ELSE <<"An error occurred while checking the card">>)
               [] OTHER -> showError(w, <<"Unexpected response from server">>),
             FALSE)

\* performLookup from the settled request on: the switch, the catch and the finally
lookupSettled(w, response) ==
    LET shown ==
          IF ~response.ok
            THEN showError(w, <<"Network error: ">> \o response.failure)
          ELSE CASE response.status = "success" -> showSuccess(w, response)
                 [] response.status = "card_not_found" ->
                      showError(w, <<"Card not found. Please check the barcode and try again.">>)
                 [] response.status = "error" ->
                      showError(w, IF response.message # Null /\ response.message # <<>>
                                     THEN response.message
                                     ELSE <<"An error occurred while checking the card">>)
                 [] OTHER -> showError(w, <<"Unexpected response from server">>)
    IN  setLookupState(shown, FALSE)

\* a handler that would measure and cut the raw value instead of its digits
handleBarcodeInputCutRaw(w, value) ==
    LET digitsOnly == stripNonDigits(value)
        v1 == IF digitsOnly # value THEN digitsOnly ELSE w.app.inputValue
        v2 == IF Len(value) > 16 THEN substring0(value, 16) ELSE v1
        w1 == [w EXCEPT !.app.inputValue = v2]
        w2 == IF w1.app.currentBarcode # w1.app.inputValue THEN resetResults(w1) ELSE w1
    IN  IF Len(w2.app.inputValue) = 16
          THEN [w2 EXCEPT !.timers.autoLookup = @ + 1]
          ELSE w2

handleBarcodeInput(w, value) ==
    LET digitsOnly == stripNonDigits(value)
        v1 == IF digitsOnly # value THEN digitsOnly ELSE w.app.inputValue
        v2 == IF Len(digitsOnly) > 16 THEN substring0(digitsOnly, 16) ELSE v1
        w1 == [w EXCEPT !.app.inputValue = v2]
        w2 == IF w1.app.currentBarcode # w1.app.inputValue THEN resetResults(w1) ELSE w1
    IN  IF Len(w2.app.inputValue) = 16
          THEN [w2 EXCEPT !.timers.autoLookup = @ + 1]
          ELSE w2

handleBarcodePaste(w) == [w EXCEPT !.timers.paste = @ + 1]

\* a callback that would take only the banner away
errorTimerCallbackHideOnly(w) ==
    IF ~w.app.errorHidden THEN [w EXCEPT !.app.errorHidden = TRUE] ELSE w

\* the 5000 ms callback of showError
errorTimerCallback(w) == IF ~w.app.errorHidden THEN resetUI(w) ELSE w

-----------------------------------------------------------------------------
(* BarcodeScanner and ScannerManager *)

\* BarcodeScanner.stop: Quagga.stop() when scanning, Quagga.offDetected() always
stop(w) ==
    [w EXCEPT !.quagga.running = IF w.scanner.isScanning THEN FALSE ELSE @,
              !.scanner.isScanning = FALSE,
              !.quagga.handlers = 0,
              !.scanner.scannerInitialized = FALSE,
              !.obs.stopped = TRUE]

updateFlashButton(w) == [w EXCEPT !.manager.flashButtonOn = w.scanner.flashEnabled]

\* BarcodeScanner.toggleFlash; torch is what the track's getCapabilities
\* answers, applied whether track.applyConstraints resolves.  The engine has
\* an active track while it runs; the flag is flipped before the constraint
\* is applied.
toggleFlash(w, torch, applied) ==
    IF w.quagga.running /\ torch
      THEN LET flipped == [w EXCEPT !.scanner.flashEnabled = ~@]
           IN  IF applied
                 THEN [flipped EXCEPT !.obs.toggleFlash =
                                         IF flipped.scanner.flashEnabled THEN "on" ELSE "off"]
                 ELSE [flipped EXCEPT !.obs.toggleFlash = "threw"]
      ELSE [w EXCEPT !.obs.toggleFlash = "threw"]

\* ScannerManager.toggleFlash: the button follows the value returned, and is
\* left alone when the scanner's toggleFlash throws
managerToggleFlash(w, torch, applied) ==
    LET w1 == toggleFlash(w, torch, applied)
    IN  IF w1.obs.toggleFlash = "threw"
          THEN w1
          ELSE [w1 EXCEPT !.manager.flashButtonOn = (w1.obs.toggleFlash = "on")]

\* a close that would clear the timer and keep its handle
closeScannerModalKeepHandle(w) ==
    LET w1 == stop([w EXCEPT !.manager.modalHidden = TRUE])
    IN  [w1 EXCEPT !.timers.scan = @ \ {w1.manager.scanTimeout}]

closeScannerModal(w) ==
    LET w1 == stop([w EXCEPT !.manager.modalHidden = TRUE])
    IN  IF w1.manager.scanTimeout # 0
          THEN [w1 EXCEPT !.timers.scan = @ \ {w1.manager.scanTimeout},
                          !.manager.scanTimeout = 0]
          ELSE w1

\* the callback handleScanButtonClick passes to openScannerModal
scanCallback(w, barcode, error) ==
    IF error # Null /\ error # <<>>
      THEN showError(w, <<"Scanning failed: ">> \o error)
    ELSE IF barcode # Null /\ barcode # <<>>
      THEN performLookup([w EXCEPT !.app.inputValue = barcode])
    ELSE w

\* this.onScanComplete?.(barcode, error)
onScanComplete(w, barcode, error) ==
    IF w.manager.onScanComplete = "null"
      THEN w
      ELSE scanCallback(
               [w EXCEPT !.obs.completions = IF @ = 0 THEN 1 ELSE 2,
                         !.obs.calls = @ \cup {[barcode |-> barcode, error |-> error,
                                                modalHidden |-> w.manager.modalHidden]}],
               barcode, error)

handleScanResult(w, barcode) == onScanComplete(closeScannerModal(w), barcode, Null)

\* an error handler that would report before it closes the modal
handleScanErrorReportFirst(w, error) == closeScannerModal(onScanComplete(w, Null, error))

handleScanError(w, error) == onScanComplete(closeScannerModal(w), Null, error)

\* handleDetection without the isValidBarcode test
handleDetectionUnchecked(w, code) ==
    IF ~w.scanner.isScanning
      THEN w
      ELSE handleScanResult(stop(w), code)

handleDetection(w, code) ==
    IF ~w.scanner.isScanning
      THEN w
    ELSE IF isValidBarcode(code)
      THEN handleScanResult(stop(w), code)
    ELSE w

\* the engine publishes one decode to every handler subscribed when it starts
RECURSIVE publishDetected(_, _, _)
publishDetected(w, code, n) ==
    IF n = 0 THEN w ELSE publishDetected(handleDetection(w, code), code, n - 1)

\* openScannerModal with BarcodeScanner.initialize, up to the answer of Quagga.init.
\* Without camera access initialize throws inside its try: its catch calls the
\* error callback and rethrows, and the catch of openScannerModal reports again.
openScannerModal(w) ==
    LET w1 == [w EXCEPT !.manager.onScanComplete = "callback",
                        !.obs.completions = 0,
                        !.obs.stopped = FALSE,
                        !.manager.modalHidden = FALSE,
                        !.scanner.onScanResult = "handleScanResult",
                        !.scanner.onScanError = "handleScanError"]
        unsupported == <<"Camera not supported on this device">>
    IN  IF ~w1.device.cameraAccess
          THEN handleScanError(
                   handleScanError([w1 EXCEPT !.obs.onScanError = TRUE],
                                   <<"Scanner initialization failed: ">> \o unsupported),
                   unsupported)
          ELSE [w1 EXCEPT !.quagga.pendingInits = @ + 1]

FreshHandle(w) == CHOOSE h \in 1..(MaxPending + 1) :
                     /\ h \notin w.timers.scan
                     /\ \A k \in 1..(h - 1) : k \in w.timers.scan

\* Quagga.init answers without error; initialize resolves and openScannerModal goes on
engineInitialized(w) ==
    LET w1 == [w EXCEPT !.quagga.pendingInits = @ - 1,
                        !.quagga.handlers = @ + 1,
                        !.quagga.running = TRUE,
                        !.scanner.isScanning = TRUE,
                        !.scanner.scannerInitialized = TRUE]
        w2 == updateFlashButton(w1)
        h  == FreshHandle(w2)
    IN  [w2 EXCEPT !.manager.scanTimeout = h, !.timers.scan = @ \cup {h}]

\* Quagga.init answers with an error; initialize rejects and openScannerModal catches
engineInitFailed(w, message) ==
    handleScanError([w EXCEPT !.quagga.pendingInits = @ - 1],
                    <<"Scanner initialization failed: ">> \o message)

\* the timeout callback closing the modal without reporting
scanTimeoutCallbackSilent(w) == closeScannerModal(w)

\* the SCANNER_TIMEOUT callback of openScannerModal
scanTimeoutCallback(w) == handleScanError(w, <<"Scan timeout - please try again">>)

-----------------------------------------------------------------------------
(* Startup: the DOMContentLoaded handler on a page p that may lack nodes.   *)
(* getElementById gives null for an absent id; using a property of null     *)
(* throws a TypeError.                                                      *)

\* a validation that would leave the success section out of its list
initializeDOMReferencesFiveChecked(p) ==
    LET missing == {i \in 1..5 : RequiredElements[i] \notin p}
    IN  IF missing = {} THEN "none"
        ELSE RequiredElements[CHOOSE i \in missing : \A j \in missing : i <= j]

\* the element named by the error initializeDOMReferences throws, "none" when
\* it returns
initializeDOMReferences(p) ==
    LET missing == {i \in DOMAIN RequiredElements : RequiredElements[i] \notin p}
    IN  IF missing = {} THEN "none"
        ELSE RequiredElements[CHOOSE i \in missing : \A j \in missing : i <= j]

SectionsFound(p) == {"loadingSection", "errorSection", "successSection"} \subseteq p
ControlsFound(p) == {"barcodeInput", "scanButton", "lookupButton"} \subseteq p

\* hideAllSections up to the first section that is null
hideSectionsFound(w, p) ==
    IF "loadingSection" \notin p THEN w
    ELSE IF "errorSection" \notin p THEN [w EXCEPT !.app.loadingHidden = TRUE]
    ELSE IF "successSection" \notin p
      THEN [w EXCEPT !.app.loadingHidden = TRUE, !.app.errorHidden = TRUE]
    ELSE hideAllSections(w)

\* showError on page p: throws out of hideAllSections when a section is null,
\* writes the message only into a message node that exists
showErrorOnPage(w, p, message) ==
    IF ~SectionsFound(p) THEN [w |-> hideSectionsFound(w, p), threw |-> TRUE]
    ELSE [w |-> [showError(w, message) EXCEPT
                   !.app.errorMessage = IF "errorMessage" \in p THEN @ ELSE w.app.errorMessage],
          threw |-> FALSE]

\* CommunityCardApp.initialize on page p: the state it leaves, whether any
\* listener was added, whether ScannerManager.initialize ran, and whether it
\* rejected (its catch block threw)
initialize(w, p) ==
    LET missing == initializeDOMReferences(p)
        wired == missing = "none" /\ "barcodeInput" \in p
        managed == missing = "none" /\ ControlsFound(p)
    IN  IF missing = "none" /\ ControlsFound(p) /\ SectionsFound(p)
          THEN [w |-> resetUI(w), listeners |-> TRUE, scannerManager |-> TRUE,
                threw |-> FALSE]
          ELSE LET message == IF missing # "none"
                                THEN <<"Required element not found: ", missing>>
                                ELSE <<"TypeError">>
                   shown == showErrorOnPage(
                                IF managed THEN hideSectionsFound(w, p) ELSE w, p,
                                <<"Failed to initialize application: ">> \o message)
               IN  [w |-> shown.w, listeners |-> wired, scannerManager |-> managed,
                    threw |-> shown.threw]

-----------------------------------------------------------------------------
(* Initial state: after DOMContentLoaded, app.initialize() has run *)

InitFields ==
    /\ scanner = [isScanning |-> FALSE, scannerInitialized |-> FALSE, flashEnabled |-> FALSE,
                  onScanResult |-> "null", onScanError |-> "null"]
    /\ quagga = [pendingInits |-> 0, running |-> FALSE, handlers |-> 0]
    /\ manager = [modalHidden |-> TRUE, onScanComplete |-> "null", scanTimeout |-> 0,
                  flashButtonOn |-> FALSE]
    /\ app = [inputValue |-> <<>>, inputDisabled |-> FALSE, scanDisabled |-> FALSE,
              lookupDisabled |-> FALSE, buttonText |-> "Check Balance",
              buttonIcon |-> "search", loadingHidden |-> TRUE, errorHidden |-> TRUE,
              successHidden |-> TRUE, errorMessage |-> <<>>, availableBalance |-> <<>>,
              monthlyBudget |-> <<>>, isLookingUp |-> FALSE, currentBarcode |-> Null]
    /\ network = <<>>
    /\ timers = [error |-> 0, autoLookup |-> 0, paste |-> 0, scan |-> {}]
    /\ device \in [cameraAccess : BOOLEAN]
    /\ obs = [completions |-> 0, stopped |-> FALSE, calls |-> {}, onScanError |-> FALSE,
              toggleFlash |-> "none"]

Init ==
    /\ InitFields
    /\ page = Elements
    /\ boot = [done |-> TRUE, listeners |-> TRUE, scannerManager |-> TRUE, alert |-> FALSE]
    /\ call = NoCall
    /\ result = NoResult

\* the page as the browser has parsed it, any of the ids absent from the
\* markup, before DOMContentLoaded is dispatched
StartupInit ==
    /\ InitFields
    /\ page \in SUBSET Elements
    /\ boot = [done |-> FALSE, listeners |-> FALSE, scannerManager |-> FALSE, alert |-> FALSE]
    /\ call = NoCall
    /\ result = NoResult

\* some caller is about to use one helper of window.AppConfig on one input
ConfigInit ==
    /\ InitFields
    /\ page = Elements
    /\ boot = [done |-> TRUE, listeners |-> TRUE, scannerManager |-> TRUE, alert |-> FALSE]
    /\ call \in Calls
    /\ result = NoResult

Pending(w) ==
    w.timers.error + w.timers.autoLookup + w.timers.paste + Cardinality(w.timers.scan)
      + w.quagga.pendingInits + Len(w.network)

WithinBounds(w) == Pending(w) <= MaxPending

Commit(w) ==
    /\ WithinBounds(w)
    /\ scanner' = w.scanner
    /\ quagga' = w.quagga
    /\ manager' = w.manager
    /\ app' = w.app
    /\ network' = w.network
    /\ timers' = w.timers
    /\ device' = w.device
    /\ obs' = w.obs
    /\ UNCHANGED <<page, boot, call, result>>

-----------------------------------------------------------------------------
(* Actions: one per event the page can receive *)

\* the user edits the enabled input field, leaving raw in it: 'input' event
InputEvent(raw) ==
    /\ ~app.inputDisabled
    /\ Commit(handleBarcodeInput([World EXCEPT !.app.inputValue = raw], raw))

\* the user pastes: 'paste' event, then the insertion and its 'input' event
PasteEvent(raw) ==
    /\ ~app.inputDisabled
    /\ Commit(handleBarcodeInput(
                 [handleBarcodePaste(World) EXCEPT !.app.inputValue = raw], raw))

PasteTimerFires ==
    /\ timers.paste > 0
    /\ Commit(handleBarcodeInput([World EXCEPT !.timers.paste = @ - 1], app.inputValue))

\* handleBarcodeKeypress with Enter
KeypressEnter ==
    /\ ~app.inputDisabled
    /\ Commit(performLookup(World))

LookupButtonClick ==
    /\ ~app.lookupDisabled
    /\ Commit(performLookup(World))

AutoLookupTimerFires ==
    /\ timers.autoLookup > 0
    /\ Commit(performLookup([World EXCEPT !.timers.autoLookup = @ - 1]))

ErrorTimerFires ==
    /\ timers.error > 0
    /\ Commit(errorTimerCallback([World EXCEPT !.timers.error = @ - 1]))

\* the fetch of request i settles with response
LookupSettles(i, response) ==
    /\ i \in 1..Len(network)
    /\ Commit(lookupSettled(
                 [World EXCEPT !.network = SubSeq(@, 1, i - 1) \o SubSeq(@, i + 1, Len(@))],
                 response))

ScanButtonClick ==
    /\ ~app.scanDisabled
    /\ Commit(openScannerModal(World))

\* handleKeyboardShortcuts with Ctrl/Cmd+S
KeydownCtrlS ==
    /\ TRUE    \* the document listener runs whatever is disabled or open
    /\ Commit(openScannerModal(World))

\* handleKeyboardShortcuts with Escape
KeydownEscape ==
    /\ TRUE    \* also when the modal is not open
    /\ Commit(closeScannerModal(World))

CloseButtonClick ==
    /\ ~manager.modalHidden
    /\ Commit(closeScannerModal(World))

\* a click on the modal backdrop itself
OutsideClick ==
    /\ ~manager.modalHidden
    /\ Commit(closeScannerModal(World))

EngineInitSucceeds ==
    /\ quagga.pendingInits > 0
    /\ Commit(engineInitialized(World))

EngineInitFails(message) ==
    /\ quagga.pendingInits > 0
    /\ Commit(engineInitFailed(World, message))

\* the running engine decodes a frame
Detected(code) ==
    /\ quagga.running
    /\ quagga.handlers > 0
    /\ Commit(publishDetected(World, code, quagga.handlers))

\* a click on the flash button of the open modal
FlashButtonClick(torch, applied) ==
    /\ ~manager.modalHidden
    /\ Commit(managerToggleFlash(World, torch, applied))

ScanTimeoutFires(h) ==
    /\ h \in timers.scan
    /\ Commit(scanTimeoutCallback([World EXCEPT !.timers.scan = @ \ {h}]))

\* the DOMContentLoaded handler: await app.initialize(), alert when it rejects
DOMContentLoaded ==
    /\ ~boot.done
    /\ LET r == initialize(World, page)
       IN  /\ WithinBounds(r.w)
           /\ app' = r.w.app
           /\ timers' = r.w.timers
           /\ boot' = [done |-> TRUE, listeners |-> r.listeners,
                       scannerManager |-> r.scannerManager, alert |-> r.threw]
    /\ UNCHANGED <<scanner, quagga, manager, network, device, obs, page, call, result>>

CallIsValidBarcode ==
    /\ call.fn = "isValidBarcode"
    /\ ~result.done
    /\ result' = [NoResult EXCEPT !.done = TRUE, !.bool = isValidBarcode(call.barcode)]
    /\ UNCHANGED <<scanner, quagga, manager, app, network, timers, device, obs,
                   page, boot, call>>

CallFormatCurrency ==
    /\ call.fn = "formatCurrency"
    /\ ~result.done
    /\ result' = [NoResult EXCEPT !.done = TRUE, !.text = formatCurrency(call.amount)]
    /\ UNCHANGED <<scanner, quagga, manager, app, network, timers, device, obs,
                   page, boot, call>>

CallGetCurrentEnvironmentName ==
    /\ call.fn = "getCurrentEnvironmentName"
    /\ ~result.done
    /\ LET r == getCurrentEnvironmentName(call.config)
       IN  result' = [NoResult EXCEPT !.done = TRUE, !.threw = r.threw, !.text = r.text]
    /\ UNCHANGED <<scanner, quagga, manager, app, network, timers, device, obs,
                   page, boot, call>>

Next ==
    \/ \E raw \in RawValues : InputEvent(raw)
    \/ \E raw \in RawValues : PasteEvent(raw)
    \/ PasteTimerFires
    \/ KeypressEnter
    \/ LookupButtonClick
    \/ AutoLookupTimerFires
    \/ ErrorTimerFires
    \/ \E i \in 1..MaxPending, response \in Responses : LookupSettles(i, response)
    \/ ScanButtonClick
    \/ KeydownCtrlS
    \/ KeydownEscape
    \/ CloseButtonClick
    \/ OutsideClick
    \/ EngineInitSucceeds
    \/ \E message \in EngineErrors : EngineInitFails(message)
    \/ \E code \in DecodedValues : Detected(code)
    \/ \E h \in 1..MaxPending : ScanTimeoutFires(h)

Spec == Init /\ [][Next]_vars

\* the startup alone, on every page the markup may give
StartupNext == DOMContentLoaded

StartupSpec == StartupInit /\ [][StartupNext]_vars

\* the helpers of window.AppConfig, each applied to each of its inputs
ConfigNext == CallIsValidBarcode \/ CallFormatCurrency \/ CallGetCurrentEnvironmentName

ConfigSpec == ConfigInit /\ [][ConfigNext]_vars

\* showError never clears its timer, and the event loop runs the callback of a
\* timer that was set and not cleared; nothing else is assumed to happen
Fairness == WF_vars(ErrorTimerFires)

FairSpec == Spec /\ Fairness

\* the program with the flashlight in use.  toggleFlash and updateFlashButton
\* are the only code that reads or writes the flash flag and the button's
\* rendering, so the clicks on the flash button leave every other handler's
\* behaviour as it is under Next.
FlashNext ==
    \/ Next
    \/ \E torch \in BOOLEAN, applied \in BOOLEAN : FlashButtonClick(torch, applied)

FlashSpec == Init /\ [][FlashNext]_vars

-----------------------------------------------------------------------------
(* Properties *)

SixteenDigits(s) ==
    /\ Len(s) = 16
    /\ \A i \in 1..Len(s) : s[i] \in {"0", "1", "2", "3", "4", "5", "6", "7", "8", "9"}

LookupTrigger == KeypressEnter \/ LookupButtonClick \/ AutoLookupTimerFires

\* C1: every request of getCardBalance carries a barcode of exactly 16 decimal
\* digits, whatever triggered the lookup; a lookup triggered on an input that is
\* empty or not 16 digits after trimming shows an error and issues no request.
C1_OnlyValidBarcodesRequested ==
    [][ /\ \A i \in 1..Len(network') : SixteenDigits(network'[i])
        /\ (LookupTrigger /\ ~SixteenDigits(trim(app.inputValue)))
              => /\ network' = network
                 /\ ~app'.errorHidden
                 /\ app'.errorMessage \in { <<"Please enter a barcode">>,
                                            <<"Please enter a valid 16-digit barcode">> } ]_vars

\* a scan completion has issued the request for the scanned barcode
C1_Witness ==
    /\ network = <<CodeA>>
    /\ app.inputValue = CodeA
    /\ app.isLookingUp

\* C2: at most one balance-lookup request is in flight at any time.
C2_AtMostOneInFlight == Len(network) <= 1

\* C3: the callback given to one call of openScannerModal is invoked at most once.
C3_CompletedAtMostOnce == obs.completions <= 1

\* the events that can still invoke the callback of the last openScannerModal:
\* an answer of Quagga.init, a scan timeout, a decode while scanning
CompletionPending ==
    \/ quagga.pendingInits > 0
    \/ timers.scan # {}
    \/ scanner.isScanning /\ quagga.running /\ quagga.handlers > 0

\* C4: every call of openScannerModal is eventually followed by an invocation of
\* its callback, also when the user closes the modal first. So while a call still
\* waits for its callback, an event that can invoke it is pending.
C4_EveryOpenCompletes ==
    (manager.onScanComplete # "null" /\ obs.completions = 0) => CompletionPending

\* C5: while the modal is hidden the scanner is not active and no scan-timeout
\* timer is pending.
C5_HiddenModalIsQuiet ==
    manager.modalHidden => (~scanner.isScanning /\ ~quagga.running /\ timers.scan = {})

VisibleSections ==
    {x \in {"loading", "error", "success"} :
        \/ x = "loading" /\ ~app.loadingHidden
        \/ x = "error" /\ ~app.errorHidden
        \/ x = "success" /\ ~app.successHidden}

\* C8: no two of the loading, error and success sections are visible at once.
C8_OneSectionVisible == Cardinality(VisibleSections) <= 1

\* an error replaced the loading section while the lookup was in flight
C8_Witness ==
    /\ VisibleSections = {"error"}
    /\ app.isLookingUp
    /\ network # <<>>

\* the texts the page shows for the amounts the endpoint answers with
Rendered(n) ==
    CASE n = 500 -> <<"€", "5", ".", "0", "0">>
      [] n = 2000 -> <<"€", "2", "0", ".", "0", "0">>

\* C9: when a lookup settles the page shows, by outcome: success, only the
\* success section with both amounts formatted; card_not_found, only the error
\* section with the card-not-found message; error, the error section with the
\* server message or the generic one; any other status, the error section with
\* the unexpected-response message; a failed request, the error section with a
\* message that begins 'Network error: '.
C9_OutcomeShown ==
    [][ \A i \in 1..Len(network), r \in Responses :
          LookupSettles(i, r)
            => /\ app'.loadingHidden
               /\ IF r.ok /\ r.status = "success"
                    THEN /\ ~app'.successHidden /\ app'.errorHidden
                         /\ app'.availableBalance = Rendered(r.available)
                         /\ app'.monthlyBudget = Rendered(r.budget)
                    ELSE /\ ~app'.errorHidden /\ app'.successHidden
                         /\ app'.errorMessage =
                              IF ~r.ok THEN <<"Network error: ">> \o r.failure
                              ELSE IF r.status = "card_not_found"
                                THEN <<"Card not found. Please check the barcode and try again.">>
                              ELSE IF r.status = "error"
                                THEN IF r.message = Null
                                       THEN <<"An error occurred while checking the card">>
                                       ELSE r.message
                              ELSE <<"Unexpected response from server">> ]_vars

C9_Witness ==
    /\ VisibleSections = {"success"}
    /\ app.availableBalance = <<"€", "5", ".", "0", "0">>
    /\ app.monthlyBudget = <<"€", "2", "0", ".", "0", "0">>
    /\ app.currentBarcode = CodeB
    /\ app.inputValue = CodeB

\* C10: when the request of a lookup settles, whatever the outcome, the lookup
\* has left the loading state: the flag is false, the input and both buttons are
\* enabled, the lookup button has its default label and icon, the loading
\* section is hidden.
C10_LoadingLeft ==
    [][ \A i \in 1..Len(network), r \in Responses :
          LookupSettles(i, r)
            => /\ ~app'.isLookingUp
               /\ ~app'.inputDisabled
               /\ ~app'.scanDisabled
               /\ ~app'.lookupDisabled
               /\ app'.buttonText = "Check Balance"
               /\ app'.buttonIcon = "search"
               /\ app'.loadingHidden ]_vars

\* a failed lookup has settled and the controls are back
C10_Witness ==
    /\ network = <<>>
    /\ ~app.isLookingUp
    /\ ~app.inputDisabled
    /\ app.buttonText = "Check Balance"
    /\ app.errorMessage = <<"Network error: ", "Failed to fetch">>
    /\ ~app.errorHidden

UserEdit == (\E raw \in RawValues : InputEvent(raw) \/ PasteEvent(raw)) \/ PasteTimerFires

\* C12: the success section, once shown, is hidden only by an input
\* event or by the start of a lookup (performLookup called by Enter, the lookup
\* button or the auto-lookup timer, or a request issued for a scanned barcode).
C12_SuccessUntilEditOrLookup ==
    [][ (~app.successHidden /\ app'.successHidden)
          => (UserEdit \/ LookupTrigger \/ Len(network') > Len(network)) ]_vars

\* C13: an input that reaches 16 digits has exactly one automatic lookup
\* waiting for it: never a second timer from further input events inside the
\* window, and no timer left for a value that is no longer 16 digits.
C13_OneAutoLookupPerEntry ==
    /\ timers.autoLookup <= 1
    /\ timers.autoLookup > 0 => SixteenDigits(app.inputValue)

\* the digits of a string, in their order
RECURSIVE DigitsOf(_)
DigitsOf(s) ==
    IF s = <<>> THEN <<>>
    ELSE (IF Head(s) \in Digits THEN <<Head(s)>> ELSE <<>>) \o DigitsOf(Tail(s))

Cleaned(raw) == SubSeq(DigitsOf(raw), 1, Min(Len(DigitsOf(raw)), BARCODE_LENGTH))

\* C14: after every input event (typing, pasting, and the deferred handler of
\* a paste) the input holds the value the event found there with its non-digits
\* removed and then cut to the first 16 characters.  (An input event leaves
\* the requests, the scanner and the error timers as they are: the conjuncts
\* before the event only single out the steps that can be one.)
C14_InputCleaned ==
    [][ /\ \A raw \in RawValues :
              (/\ network' = network
               /\ manager' = manager
               /\ quagga' = quagga
               /\ timers'.error = timers.error
               /\ (InputEvent(raw) \/ PasteEvent(raw))) => app'.inputValue = Cleaned(raw)
        /\ PasteTimerFires => app'.inputValue = Cleaned(app.inputValue) ]_vars

\* what is left of the entry 12a34
C14_Witness == app.inputValue = <<"1", "2", "3", "4">>

\* C15: while a lookup request is in flight the input, the scan button and the
\* lookup button are disabled and the loading section is the one shown.
C15_BusyWhileInFlight ==
    network # <<>>
      => /\ app.inputDisabled
         /\ app.scanDisabled
         /\ app.lookupDisabled
         /\ ~app.loadingHidden
         /\ app.errorHidden
         /\ app.successHidden

\* some element that the startup is said to require is absent
Absent(ids) == \E id \in ids : id \notin page

\* the startup was aborted with a visible error: no listener added, no Scanner
\* Manager initialized, and the error section or the alert shown
StartupAborted ==
    /\ ~boot.listeners
    /\ ~boot.scannerManager
    /\ boot.alert \/ ("errorSection" \in page /\ ~app.errorHidden)

\* C16 as stated: when any of the nine elements (the input, the two buttons,
\* the three sections, the three display nodes) is absent, the startup is
\* aborted with a visible error.
C16_NineRequired == (boot.done /\ Absent(Elements)) => StartupAborted

\* C16: when any of the six elements that initializeDOMReferences validates
\* (the input, the two buttons, the three sections) is absent, the startup is
\* aborted with a visible error, which names the first absent element when the
\* error section can show it; when none of the six is absent the startup goes
\* through, whatever display node is absent.
C16_SixRequired ==
    boot.done =>
      IF Absent(Elements \ DisplayElements)
        THEN /\ StartupAborted
             /\ (~boot.alert /\ "errorMessage" \in page)
                  => /\ Len(app.errorMessage) = 3
                     /\ \E i \in DOMAIN RequiredElements :
                           /\ app.errorMessage[3] = RequiredElements[i]
                           /\ RequiredElements[i] \notin page
                           /\ \A j \in 1..(i - 1) : RequiredElements[j] \in page
        ELSE boot.listeners /\ boot.scannerManager /\ ~boot.alert /\ app.errorHidden

\* the page lacks its scan button: the error section says so
C16_Witness ==
    /\ boot.done
    /\ "scanButton" \notin page
    /\ ~app.errorHidden
    /\ app.errorMessage = <<"Failed to initialize application: ",
                            "Required element not found: ", "scanButton">>

\* the environment key has no entry in the table of labels
NoLabelMapping(config) == \A e \in config.envNames : e[1] # config.currentEnv

\* C17: getCurrentEnvironmentName returns "Unknown" and throws nothing
\* whenever the environment key has no label mapping, the configuration
\* object of the source included.
C17_UnknownWithoutMapping ==
    (call.fn = "getCurrentEnvironmentName" /\ result.done /\ NoLabelMapping(call.config))
      => (~result.threw /\ result.text = <<"Unknown">>)

\* C18: isValidBarcode is true of a string exactly when it has 16 characters,
\* each of them a decimal digit.
C18_ValidIffSixteenDigits ==
    (call.fn = "isValidBarcode" /\ result.done)
      => (~result.threw /\ result.bool = SixteenDigits(call.barcode))

\* both answers have been given: one string accepted, a longer one that
\* contains 16 digits in a row refused
C18_Witness ==
    /\ call.fn = "isValidBarcode"
    /\ result.done
    /\ \/ result.bool /\ call.barcode = CodeB
       \/ ~result.bool /\ Len(call.barcode) > 16

\* the number a string of decimal digits denotes
DigitString == <<"0", "1", "2", "3", "4", "5", "6", "7", "8", "9">>
DigitValue(c) == (CHOOSE i \in DOMAIN DigitString : DigitString[i] = c) - 1
RECURSIVE NumberOf(_)
NumberOf(s) ==
    IF s = <<>> THEN 0
    ELSE 10 * NumberOf(SubSeq(s, 1, Len(s) - 1)) + DigitValue(s[Len(s)])

\* C19: formatCurrency(n), n a non-negative integer, is the currency symbol,
\* then n div 100 in decimal without leading zeros, a decimal point, and n mod
\* 100 in exactly two digits.
C19_TwoDecimals ==
    (call.fn = "formatCurrency" /\ result.done)
      => LET t == result.text
             k == Len(t)
         IN  /\ ~result.threw
             /\ k >= 5
             /\ t[1] = "€"
             /\ t[k - 2] = "."
             /\ \A i \in (2..k) \ {k - 2} : t[i] \in Digits
             /\ k > 5 => t[2] # "0"
             /\ NumberOf(SubSeq(t, 2, k - 3)) = call.amount \div 100
             /\ NumberOf(SubSeq(t, k - 1, k)) = call.amount % 100

\* 105 minor units have been rendered, with the zero of the cents in place
C19_Witness ==
    /\ call.fn = "formatCurrency"
    /\ call.amount = 105
    /\ result.text = <<"€", "1", ".", "0", "5">>

C21_InactiveAfterStop == obs.stopped => ~scanner.isScanning

\* C22: when Quagga.init answers with an error, initialize fails with an
\* error that carries the engine's message (the app shows it), initialize calls
\* the error callback it was given, and the scanner is not scanning; when
\* Quagga.init answers without error, the scanner is scanning.
C22_EngineInitOutcome ==
    [][ /\ \A message \in EngineErrors :
              EngineInitFails(message)
                => /\ obs'.onScanError
                   /\ ~scanner'.isScanning
                   /\ app'.errorMessage
                        = <<"Scanning failed: ", "Scanner initialization failed: ">> \o message
        /\ EngineInitSucceeds => scanner'.isScanning ]_vars

\* C23: every call of the scan completion callback is made with the modal
\* hidden and with exactly one argument that is not null: a barcode of 16
\* decimal digits, or an error message.
C23_OneArgument ==
    \A c \in obs.calls :
        /\ c.modalHidden
        /\ (c.barcode = Null) # (c.error = Null)
        /\ c.barcode # Null => SixteenDigits(c.barcode)
        /\ c.error # Null => c.error # <<>>

\* a decoded barcode has just been handed to the callback
C23_Witness == \E c \in obs.calls : c.barcode = CodeA

\* C24: a scan that completes with a barcode puts the barcode into the input
\* and issues a lookup request for it in the same step, whatever the state of
\* the app; a scan that completes with an error shows the error in the error
\* section.
C24_ScanCompletionHandled ==
    [][ /\ \A c \in obs'.calls :
              c.barcode # Null
                => /\ app'.inputValue = c.barcode
                   /\ Len(network') = Len(network) + 1
                   /\ network'[Len(network')] = c.barcode
        /\ (\E c \in obs'.calls : c.error # Null)
              => /\ ~app'.errorHidden
                 /\ \E c \in obs'.calls :
                       app'.errorMessage = <<"Scanning failed: ">> \o c.error ]_vars

\* C27: whenever the success section is shown, the barcode recorded as current
\* is the value of the input.
C27_SuccessIsOfInput == ~app.successHidden => app.currentBarcode = app.inputValue

\* C28: the error timer that finds a banner shown and dismisses it is that
\* banner's own timer.  Every timer runs 5000 ms, so timers fire in the order
\* they were set, and with camera access no step sets two of them: the timer
\* that fires is the banner's own exactly when no other is pending.
C28_OwnTimerDismisses ==
    [][ (device.cameraAccess /\ ErrorTimerFires /\ ~app.errorHidden)
          => timers.error = 1 ]_vars

\* C25: a toggleFlash on a running track with torch control flips the flag and
\* returns the new flag, without an active track or without torch control it
\* fails, and a toggleFlash that fails leaves the flag as it was
C25_ToggleFlash ==
    [][ \A torch \in BOOLEAN, applied \in BOOLEAN :
            FlashButtonClick(torch, applied)
                => /\ ~(quagga.running /\ torch) => obs'.toggleFlash = "threw"
                   /\ obs'.toggleFlash = "threw"
                         => scanner'.flashEnabled = scanner.flashEnabled
                   /\ obs'.toggleFlash # "threw"
                         => /\ scanner'.flashEnabled = ~scanner.flashEnabled
                            /\ obs'.toggleFlash
                                 = IF scanner'.flashEnabled THEN "on" ELSE "off" ]_vars

\* C26: once the scanner of a session was stopped the flash flag is off, and
\* an engine that starts finds the flag off and renders the button off
C26_FlashOffAfterStop ==
    [][ /\ obs'.stopped => ~scanner'.flashEnabled
        /\ EngineInitSucceeds
              => ~scanner'.flashEnabled /\ ~manager'.flashButtonOn ]_vars

====
